---- MODULE Spec2Model ----
(***************************************************************************)
(* Model of negocio/servicio_autenticacion.py: ServicioAutenticacion, the  *)
(* three factor validators (validar_rfid, validar_pin, validar_patron) and *)
(* the orchestrator autenticar_mfa.                                        *)
(*                                                                         *)
(* The repositories are functions from key to entity; a key outside the    *)
(* DOMAIN is a failed lookup (NotFound).  The validators are operators     *)
(* that give the exception raised ("ok" when none) together with the       *)
(* repository as the call leaves it; the actions apply them.               *)
(***************************************************************************)
EXTENDS Integers, Sequences, FiniteSets, TLC

VARIABLES repo_rfid, repo_pins, repo_patrones, repo_accesos, reloj,
          llamada, captura

vars == <<repo_rfid, repo_pins, repo_patrones, repo_accesos, reloj,
          llamada, captura>>

\* ---------------------------------------------------------------- bounds
\* caps on the credential's attempt counters (Python ints are unbounded)
MaxFallidos == 3
MaxExitosos == 1
\* the clock reads 0..MaxReloj; a day has TicksPorDia readings
MaxReloj == 2
TicksPorDia == 2
\* the captures offered by a sensor have up to MaxErrores wrong gestures
MaxErrores == 2
\* longest reference / captured sequence in the pattern-only specification
MaxLargo == 10

\* ----------------------------------------------------- program constants
max_intentos_rfid == 3
max_intentos_pin == 3
\* umbral_similitud_patron = 0.9, kept as the fraction <<9, 10>>.  matches
\* and n are small integers, matches / n is the correctly rounded double of
\* the quotient and 0.9 the correctly rounded double of 9/10, so
\* matches / n < 0.9 holds of the doubles exactly when it holds of the
\* fractions.
umbral_similitud_patron == <<9, 10>>
\* capturar_secuencia(4, ...) and capturar_secuencia(10, ...)
LargoPin == 4
LargoPatron == 10

\* None, for each optional value: a timing list, a datetime, an Acceso
SinTiempos == [presente |-> FALSE, valores |-> <<>>]
SinInstante == [dia |-> -1, tick |-> -1]
SinAcceso ==
    [id_acceso |-> 0, cedula_usuario |-> "-", id_area |-> "-",
     fecha_entrada |-> SinInstante, registro_exitoso_id |-> "-"]

\* a timing list that is present
Tiempos(valores) == [presente |-> TRUE, valores |-> valores]

Usuarios == {"u1", "u2"}
Areas == {"a1", "ax"}
Seriales == {"s1", "sx"}
Gestos == {1, 2}

EstadoCredencial == {"ACTIVA", "EXPIRADA", "BLOQUEADA", "INACTIVA"}
EstadoPin == {"ACTIVO", "BLOQUEADO"}

\* datetime values: the day and the reading within the day
Instante(n) == [dia |-> n \div TicksPorDia, tick |-> n % TicksPorDia]

\* datetime.date(): drops the time of day
date(ahora) == ahora.dia

\* datetime.now()
now == Instante(reloj)

Min(a, b) == IF a <= b THEN a ELSE b
Max(a, b) == IF a >= b THEN a ELSE b

\* ------------------------------------------------------------ validar_rfid

\* Credencial.esta_vigente(fecha): ACTIVA and not past expiration
esta_vigente(cred, fecha) ==
    cred.estado = "ACTIVA" /\ fecha <= cred.fecha_expiracion

\* the owner check fails but the attempt is not counted
fallo_identidad_sin_conteo(cred) == cred

\* the owner check fails and the credential is blocked at max_intentos_rfid
fallo_identidad_con_bloqueo(cred) ==
    [cred EXCEPT !.intentos_fallidos = @ + 1,
                 !.estado = IF cred.intentos_fallidos + 1 >= max_intentos_rfid
                            THEN "BLOQUEADA" ELSE @]

\* cred.intentos_fallidos += 1 (owner mismatch)
fallo_identidad(cred) == [cred EXCEPT !.intentos_fallidos = @ + 1]

\* EXPIRADA already on the expiration date
fallo_vigencia_no_estricto(cred, ahora) ==
    [cred EXCEPT !.intentos_fallidos = @ + 1,
                 !.estado = IF date(ahora) >= cred.fecha_expiracion
                            THEN "EXPIRADA" ELSE @]

\* cred.intentos_fallidos += 1; EXPIRADA when the date is past expiration
fallo_vigencia(cred, ahora) ==
    [cred EXCEPT !.intentos_fallidos = @ + 1,
                 !.estado = IF date(ahora) > cred.fecha_expiracion
                            THEN "EXPIRADA" ELSE @]

\* success that leaves the failed-attempt count as it was
exito_rfid_sin_reset(cred, ahora) ==
    [cred EXCEPT !.intentos_exitosos = @ + 1,
                 !.ultimo_acceso = ahora]

\* reset de fallos y exito
exito_rfid(cred, ahora) ==
    [cred EXCEPT !.intentos_exitosos = @ + 1,
                 !.intentos_fallidos = 0,
                 !.ultimo_acceso = ahora]

ErrorRfid(msg, serial, cred) ==
    [exc |-> "AutenticacionError", msg |-> msg,
     repo |-> [repo_rfid EXCEPT ![serial] = cred]]

\* validar_rfid with the validity check made before the owner check
validar_rfid_vigencia_primero(serial, cedula_esperada, ahora) ==
    IF serial \notin DOMAIN repo_rfid
    THEN [exc |-> "NotFound", msg |-> "-", repo |-> repo_rfid]
    ELSE LET cred == repo_rfid[serial] IN
         IF ~esta_vigente(cred, date(ahora))
         THEN ErrorRfid("RFID invalida/expirada/bloqueada.", serial,
                        fallo_vigencia(cred, ahora))
         ELSE IF cred.cedula_propietario # cedula_esperada
         THEN ErrorRfid("RFID no corresponde al usuario.", serial,
                        fallo_identidad(cred))
         ELSE [exc |-> "ok", msg |-> "-",
               repo |-> [repo_rfid EXCEPT ![serial] = exito_rfid(cred, ahora)]]

validar_rfid(serial, cedula_esperada, ahora) ==
    IF serial \notin DOMAIN repo_rfid
    THEN [exc |-> "NotFound", msg |-> "-", repo |-> repo_rfid]
    ELSE LET cred == repo_rfid[serial] IN
         IF cred.cedula_propietario # cedula_esperada
         THEN ErrorRfid("RFID no corresponde al usuario.", serial,
                        fallo_identidad(cred))
         ELSE IF ~esta_vigente(cred, date(ahora))
         THEN ErrorRfid("RFID invalida/expirada/bloqueada.", serial,
                        fallo_vigencia(cred, ahora))
         ELSE [exc |-> "ok", msg |-> "-",
               repo |-> [repo_rfid EXCEPT ![serial] = exito_rfid(cred, ahora)]]

\* ------------------------------------------------------------- validar_pin

\* the BLOQUEADO check left out
pin_bloqueado_nunca(pin) == FALSE

\* pin.estado == EstadoPin.BLOQUEADO
pin_bloqueado(pin) == pin.estado = "BLOQUEADO"

\* > where the code has >=
alcanza_maximo_estricto(intentos) == intentos > max_intentos_pin

\* BLOQUEADO one mismatch early
alcanza_maximo_uno_antes(intentos) == intentos >= max_intentos_pin - 1

\* pin.intentos_fallidos >= self.max_intentos_pin
alcanza_maximo(intentos) == intentos >= max_intentos_pin

\* the mismatch is not counted
fallo_pin_sin_conteo(pin) ==
    [pin EXCEPT !.estado = IF alcanza_maximo(pin.intentos_fallidos)
                           THEN "BLOQUEADO" ELSE @]

\* pin.intentos_fallidos += 1; BLOQUEADO when the count reaches the maximum
fallo_pin(pin) ==
    [pin EXCEPT !.intentos_fallidos = @ + 1,
                !.estado = IF alcanza_maximo(pin.intentos_fallidos + 1)
                           THEN "BLOQUEADO" ELSE @]

\* validar_pin with the comparison made before the BLOQUEADO check
validar_pin_igualdad_primero(id_area, secuencia_capturada) ==
    IF id_area \notin DOMAIN repo_pins
    THEN [exc |-> "NotFound", msg |-> "-", repo |-> repo_pins]
    ELSE LET pin == repo_pins[id_area] IN
         IF secuencia_capturada = pin.secuencia_gestos
         THEN [exc |-> "ok", msg |-> "-",
               repo |-> [repo_pins EXCEPT
                           ![id_area].intentos_fallidos = 0]]
         ELSE IF pin_bloqueado(pin)
         THEN [exc |-> "AutenticacionError",
               msg |-> "PIN gestual bloqueado para esta area.",
               repo |-> repo_pins]
         ELSE [exc |-> "AutenticacionError",
               msg |-> "PIN gestual incorrecto.",
               repo |-> [repo_pins EXCEPT ![id_area] = fallo_pin(pin)]]

validar_pin(id_area, secuencia_capturada) ==
    IF id_area \notin DOMAIN repo_pins
    THEN [exc |-> "NotFound", msg |-> "-", repo |-> repo_pins]
    ELSE LET pin == repo_pins[id_area] IN
         IF pin_bloqueado(pin)
         THEN [exc |-> "AutenticacionError",
               msg |-> "PIN gestual bloqueado para esta area.",
               repo |-> repo_pins]
         ELSE IF secuencia_capturada # pin.secuencia_gestos
         THEN [exc |-> "AutenticacionError",
               msg |-> "PIN gestual incorrecto.",
               repo |-> [repo_pins EXCEPT ![id_area] = fallo_pin(pin)]]
         ELSE [exc |-> "ok", msg |-> "-",
               repo |-> [repo_pins EXCEPT
                           ![id_area].intentos_fallidos = 0]]

\* ---------------------------------------------------------- validar_patron

\* the counting loop over i in range(min(len(ref), len(cap)))
RECURSIVE contar_matches(_, _, _, _)
contar_matches(ref, cap, i, matches) ==
    IF i > Min(Len(ref), Len(cap)) THEN matches
    ELSE contar_matches(ref, cap, i + 1,
                        IF ref[i] = cap[i] THEN matches + 1 ELSE matches)

\* n taken as the length of the reference alone
similitud_sobre_referencia(ref, cap) ==
    <<contar_matches(ref, cap, 1, 0), Len(ref)>>

\* similitud = matches / n, kept as the fraction <<matches, n>>
similitud(ref, cap) ==
    <<contar_matches(ref, cap, 1, 0), Max(Len(ref), Len(cap))>>

\* <= where the code has <
MenorOIgual(f, g) == f[1] * g[2] <= g[1] * f[2]

\* f < g for fractions with positive denominators
MenorQue(f, g) == f[1] * g[2] < g[1] * f[2]

\* the largest power of two that is at most m (m >= 1)
RECURSIVE PotenciaDeDos(_)
PotenciaDeDos(m) == IF m < 2 THEN 1 ELSE 2 * PotenciaDeDos(m \div 2)

\* 0.6 * ref <= got <= 1.4 * ref in IEEE doubles, for deltas ref > 0 and got
\* that are whole numbers.  The doubles 0.6 and 1.4 lie just below 6/10 and
\* 14/10.  The lower comparison agrees with the exact one.  The product
\* 1.4 * ref falls short of the whole number m = 14 * ref / 10 by
\* (2m/7) * 2^-52, which rounds down to the double below m exactly when it
\* exceeds half a unit in the last place of m, that is when
\* 4 * m > 7 * PotenciaDeDos(m) (first at ref = 45, m = 63); got = m is then
\* out of tolerance.
dentro_de_tolerancia(ref, got) ==
    /\ 6 * ref <= 10 * got
    /\ \/ 10 * got < 14 * ref
       \/ 10 * got = 14 * ref /\ ~(4 * got > 7 * PotenciaDeDos(got))

\* the loop over zip(patron.tiempos_entre_gestos, tiempos): TRUE when some
\* pair raises, pairs with ref = 0 are skipped
RECURSIVE timings_fuera(_, _, _)
timings_fuera(refs, gots, i) ==
    IF i > Min(Len(refs), Len(gots)) THEN FALSE
    ELSE IF refs[i] = 0 THEN timings_fuera(refs, gots, i + 1)
    ELSE IF ~dentro_de_tolerancia(refs[i], gots[i]) THEN TRUE
    ELSE timings_fuera(refs, gots, i + 1)

SinSimilitud == <<0, 1>>

validar_patron(cedula, secuencia_capturada, tiempos) ==
    IF cedula \notin DOMAIN repo_patrones
    THEN [exc |-> "NotFound", msg |-> "-", sim |-> SinSimilitud]
    ELSE LET patron == repo_patrones[cedula] IN
         IF Len(secuencia_capturada) = 0
         THEN [exc |-> "ValidacionError",
               msg |-> "La secuencia capturada del patron esta vacia.",
               sim |-> SinSimilitud]
         ELSE LET sim == similitud(patron.secuencia_gestos,
                                   secuencia_capturada) IN
              IF MenorQue(sim, umbral_similitud_patron)
              THEN [exc |-> "AutenticacionError",
                    msg |-> "Patron gestual no coincide.",
                    sim |-> sim]
              ELSE IF /\ patron.tiempos_entre_gestos.presente
                      /\ tiempos.presente
                      /\ Len(patron.tiempos_entre_gestos.valores)
                            = Len(tiempos.valores)
                      /\ timings_fuera(patron.tiempos_entre_gestos.valores,
                                       tiempos.valores, 1)
              THEN [exc |-> "AutenticacionError",
                    msg |-> "Patron gestual: timings fuera de tolerancia.",
                    sim |-> sim]
              ELSE [exc |-> "ok", msg |-> "-", sim |-> sim]

\* ------------------------------------------------- what a caller observes

\* The last call: the operation, its arguments, the exception it raised, the
\* calls it made in order (eventos), how each validator it invoked ended
\* (factores), the value returned, what the sensors delivered, and the
\* repositories as they were when the call started.
SinLlamada ==
    [op |-> "ninguna", exc |-> "-", msg |-> "-",
     cedula |-> "-", id_area |-> "-", serial |-> "-", ahora |-> SinInstante,
     eventos |-> <<>>, factores |-> <<>>, retorno |-> SinAcceso,
     largo_pin |-> -1, pin_igual |-> FALSE,
     largo_patron |-> -1, sim |-> SinSimilitud,
     rfid_antes |-> <<>>, pins_antes |-> <<>>, accesos_antes |-> <<>>]

NuevaLlamada(op) ==
    [SinLlamada EXCEPT !.op = op,
                       !.rfid_antes = repo_rfid,
                       !.pins_antes = repo_pins,
                       !.accesos_antes = repo_accesos]

\* the captured PIN sequence equals the stored reference of the area
PinIgual(id_area, sec) ==
    id_area \in DOMAIN repo_pins /\ sec = repo_pins[id_area].secuencia_gestos

SinCaptura == [sec |-> <<>>, tiempos |-> SinTiempos]

\* the credential counters stay within the explored range
EnCota(rfid) ==
    \A s \in DOMAIN rfid : /\ rfid[s].intentos_fallidos <= MaxFallidos
                           /\ rfid[s].intentos_exitosos <= MaxExitosos

\* ------------------------------------------------------------ test data
PinRef == <<1, 2, 2, 1>>
PatronRef == [i \in 1..LargoPatron |-> 1 + (i % 2)]
TiemposRef == Tiempos(<<45, 0>>)
Deltas == {26, 27, 45, 63}

\* ref with the gestures at the positions in S replaced by the other gesture
ConErrores(ref, S) ==
    [i \in 1..Len(ref) |-> IF i \in S THEN 3 - ref[i] ELSE ref[i]]

\* What a sensor may deliver when ref is the stored reference: ref with up
\* to MaxErrores wrong gestures at its start or at its end, a capture cut
\* short by the closing gesture (empty, half, one gesture missing), or one
\* gesture too many.
Capturas(ref) ==
    {ConErrores(ref, S) :
        S \in {1..k : k \in 0..MaxErrores}
               \cup {(Len(ref) - k + 1)..Len(ref) : k \in 1..MaxErrores}}
    \cup {SubSeq(ref, 1, k) : k \in {0, Len(ref) \div 2, Len(ref) - 1}}
    \cup {Append(ref, 1)}

CapturasPin == Capturas(PinRef)
CapturasPatron == Capturas(PatronRef)

\* what the pattern sensor may deliver as timings: none, a list of another
\* length than the reference's, or a list of the reference's length
TiemposCapturados ==
    {SinTiempos, Tiempos(<<45>>)} \cup {Tiempos(<<d, 0>>) : d \in Deltas}

\* ---------------------------------------------------------------- actions

\* a caller invokes validar_rfid
ValidarRfid(serial, cedula_esperada, ahora) ==
    LET r == validar_rfid(serial, cedula_esperada, ahora) IN
    /\ EnCota(r.repo)
    /\ repo_rfid' = r.repo
    /\ llamada' = [NuevaLlamada("validar_rfid") EXCEPT
                      !.serial = serial, !.cedula = cedula_esperada,
                      !.ahora = ahora, !.eventos = <<"validar_rfid">>,
                      !.factores = <<r.exc>>,
                      !.exc = r.exc, !.msg = r.msg]
    /\ UNCHANGED <<repo_pins, repo_patrones, repo_accesos, reloj, captura>>

\* a caller invokes validar_pin
ValidarPin(id_area, secuencia_capturada) ==
    LET r == validar_pin(id_area, secuencia_capturada) IN
    /\ repo_pins' = r.repo
    /\ llamada' = [NuevaLlamada("validar_pin") EXCEPT
                      !.id_area = id_area, !.eventos = <<"validar_pin">>,
                      !.largo_pin = Len(secuencia_capturada),
                      !.pin_igual = PinIgual(id_area, secuencia_capturada),
                      !.factores = <<r.exc>>,
                      !.exc = r.exc, !.msg = r.msg]
    /\ UNCHANGED <<repo_rfid, repo_patrones, repo_accesos, reloj, captura>>

\* a caller invokes validar_patron
ValidarPatron(cedula, secuencia_capturada, tiempos) ==
    LET r == validar_patron(cedula, secuencia_capturada, tiempos) IN
    /\ llamada' = [NuevaLlamada("validar_patron") EXCEPT
                      !.cedula = cedula, !.eventos = <<"validar_patron">>,
                      !.largo_patron = Len(secuencia_capturada),
                      !.sim = r.sim, !.factores = <<r.exc>>,
                      !.exc = r.exc, !.msg = r.msg]
    /\ UNCHANGED <<repo_rfid, repo_pins, repo_patrones, repo_accesos,
                   reloj, captura>>

\* ---------------------------------------------------------- autenticar_mfa

\* only a short capture is rejected
captura_corta(sec, esperado) == Len(sec) < esperado

\* no capture is taken as incomplete
captura_siempre_completa(sec, esperado) == FALSE

\* len(sec_pin) != 4, len(sec_pat) != 10
captura_incompleta(sec, esperado) == Len(sec) # esperado

\* the door is not opened
senales_sin_abrir == <<"indicar_exito">>

\* the door is opened before success is indicated
senales_invertidas == <<"abrir_puerta", "indicar_exito">>

\* actuador.indicar_exito(); actuador.abrir_puerta()
senales_actuador == <<"indicar_exito", "abrir_puerta">>

\* the record is stamped with the clock read again when it is built
fecha_entrada_al_crear(ahora, fin) == Instante(fin)

\* fecha_entrada=ahora: the time read at the start of the call, whatever the
\* clock (fin) shows when the record is built
fecha_entrada(ahora, fin) == ahora

\* Acceso(id_acceso=str(uuid4()), ...): the identifier is fresh, here the
\* next unused number
Acceso(cedula, id_area, ahora) ==
    [id_acceso |-> Len(repo_accesos) + 1,
     cedula_usuario |-> cedula,
     id_area |-> id_area,
     fecha_entrada |-> ahora,
     registro_exitoso_id |-> ""]

\* the record is built but not persisted
agregar_nada(accesos, acceso) == accesos

\* repo_accesos.agregar(acceso)
agregar(accesos, acceso) == Append(accesos, acceso)

\* a call that raises leaves the repositories as it found them
Terminar_con_rollback(l, rfid, pins, accesos, fin) ==
    /\ EnCota(rfid)
    /\ llamada' = l
    /\ repo_rfid' = IF l.exc = "ok" THEN rfid ELSE repo_rfid
    /\ repo_pins' = IF l.exc = "ok" THEN pins ELSE repo_pins
    /\ repo_accesos' = accesos
    /\ reloj' = fin
    /\ UNCHANGED <<repo_patrones, captura>>

\* the call ends (by return or by raise): l is what the caller observed,
\* rfid / pins / accesos the repositories as the call leaves them, fin the
\* clock when it ends
Terminar(l, rfid, pins, accesos, fin) ==
    /\ EnCota(rfid)
    /\ llamada' = l
    /\ repo_rfid' = rfid
    /\ repo_pins' = pins
    /\ repo_accesos' = accesos
    /\ reloj' = fin
    /\ UNCHANGED <<repo_patrones, captura>>

Falla(l, r) == [l EXCEPT !.exc = r.exc, !.msg = r.msg]

ErrorIncompleto(msg) == [exc |-> "AutenticacionError", msg |-> msg]

\* One call of autenticar_mfa.  ahora is read once, at the start; the
\* sensors block, so the clock may have moved (fin) when the call ends.
\* Each sensor is asked only when the call gets that far.
autenticar_mfa(cedula, id_area, serial_rfid, fin) ==
    LET ahora == now
        l0 == [NuevaLlamada("autenticar_mfa") EXCEPT
                  !.cedula = cedula, !.id_area = id_area,
                  !.serial = serial_rfid, !.ahora = ahora]
        \* Factor 1: RFID
        f1 == validar_rfid(serial_rfid, cedula, ahora)
        l1 == [l0 EXCEPT !.eventos = Append(@, "validar_rfid"),
                         !.factores = Append(@, f1.exc)]
    IN
    IF f1.exc # "ok"
    THEN Terminar(Falla(l1, f1), f1.repo, repo_pins, repo_accesos, fin)
    ELSE
    \* Factor 2: PIN gestual (4)
    \E sec_pin \in CapturasPin :
    LET l2 == [l1 EXCEPT !.eventos = Append(@, "capturar_pin"),
                         !.largo_pin = Len(sec_pin),
                         !.pin_igual = PinIgual(id_area, sec_pin)]
    IN
    IF captura_incompleta(sec_pin, LargoPin)
    THEN Terminar(Falla(l2, ErrorIncompleto("PIN gestual incompleto.")),
                  f1.repo, repo_pins, repo_accesos, fin)
    ELSE
    LET f2 == validar_pin(id_area, sec_pin)
        l3 == [l2 EXCEPT !.eventos = Append(@, "validar_pin"),
                         !.factores = Append(@, f2.exc)]
    IN
    IF f2.exc # "ok"
    THEN Terminar(Falla(l3, f2), f1.repo, f2.repo, repo_accesos, fin)
    ELSE
    \* Factor 3: patron biometrico (10)
    \E sec_pat \in CapturasPatron :
    LET l4 == [l3 EXCEPT !.eventos = Append(@, "capturar_patron"),
                         !.largo_patron = Len(sec_pat)]
    IN
    IF captura_incompleta(sec_pat, LargoPatron)
    THEN Terminar(Falla(l4, ErrorIncompleto("Patron gestual incompleto.")),
                  f1.repo, f2.repo, repo_accesos, fin)
    ELSE
    \E tiempos \in TiemposCapturados :
    LET f3 == validar_patron(cedula, sec_pat, tiempos)
        l5 == [l4 EXCEPT !.eventos = Append(@, "validar_patron"),
                         !.factores = Append(@, f3.exc),
                         !.sim = f3.sim]
    IN
    IF f3.exc # "ok"
    THEN Terminar(Falla(l5, f3), f1.repo, f2.repo, repo_accesos, fin)
    ELSE
    \* all three factors passed
    LET acceso == Acceso(cedula, id_area, fecha_entrada(ahora, fin))
        l6 == [l5 EXCEPT !.eventos = @ \o senales_actuador
                                       \o <<"agregar">>,
                         !.exc = "ok",
                         !.retorno = acceso]
    IN Terminar(l6, f1.repo, f2.repo, agregar(repo_accesos, acceso), fin)

\* time passes between calls
Tick ==
    /\ reloj < MaxReloj
    /\ reloj' = reloj + 1
    /\ llamada' = NuevaLlamada("ninguna")
    /\ UNCHANGED <<repo_rfid, repo_pins, repo_patrones, repo_accesos, captura>>

\* ------------------------------------------------------------ specification

Credencial(propietario, estado) ==
    [cedula_propietario |-> propietario,
     fecha_expiracion |-> 0,
     estado |-> estado,
     intentos_fallidos |-> 0,
     intentos_exitosos |-> 0,
     ultimo_acceso |-> SinInstante]

Init ==
    /\ \E e \in EstadoCredencial :
          repo_rfid = [s \in {"s1"} |-> Credencial("u1", e)]
    /\ repo_pins = [a \in {"a1"} |->
                      [secuencia_gestos |-> PinRef,
                       estado |-> "ACTIVO",
                       intentos_fallidos |-> 0]]
    /\ repo_patrones = [u \in {"u1"} |->
                           [secuencia_gestos |-> PatronRef,
                            tiempos_entre_gestos |-> TiemposRef]]
    /\ repo_accesos = <<>>
    /\ reloj = 0
    /\ captura = SinCaptura
    /\ llamada = NuevaLlamada("ninguna")

Next ==
    \/ \E s \in Seriales, c \in Usuarios : ValidarRfid(s, c, now)
    \/ \E a \in Areas, sec \in CapturasPin : ValidarPin(a, sec)
    \/ \E c \in Usuarios, a \in Areas, s \in Seriales,
          fin \in reloj..Min(reloj + 1, MaxReloj) : autenticar_mfa(c, a, s, fin)
    \/ Tick

Spec == Init /\ [][Next]_vars

\* ------------------------------------- specification of validar_patron alone
\* validar_patron changes nothing it reads, so it is explored on its own: the
\* stored reference and the captured sequence and timings are drawn at the
\* start and the action applies validar_patron to them.

\* reference sequences of every length up to MaxLargo
Referencias == {[i \in 1..k |-> 1 + (i % 2)] : k \in 0..MaxLargo}

\* captured sequences: every sequence of up to MaxLargo gestures
Secuencias == UNION {[1..k -> Gestos] : k \in 0..MaxLargo}

InitPatron ==
    /\ repo_rfid = [s \in {"s1"} |-> Credencial("u1", "ACTIVA")]
    /\ repo_pins = [a \in {"a1"} |->
                      [secuencia_gestos |-> PinRef,
                       estado |-> "ACTIVO",
                       intentos_fallidos |-> 0]]
    /\ \E ref \in Referencias :
          repo_patrones = [u \in {"u1"} |->
                             [secuencia_gestos |-> ref,
                              tiempos_entre_gestos |-> TiemposRef]]
    /\ repo_accesos = <<>>
    /\ reloj = 0
    /\ \E sec \in Secuencias,
          t \in {SinTiempos, Tiempos(<<45, 0>>), Tiempos(<<63, 0>>)} :
          captura = [sec |-> sec, tiempos |-> t]
    /\ llamada = NuevaLlamada("ninguna")

NextPatron ==
    \E c \in Usuarios : ValidarPatron(c, captura.sec, captura.tiempos)

SpecPatron == InitPatron /\ [][NextPatron]_vars

\* ------------------------------------------------------------- properties

AutErr == "AutenticacionError"

EsMfa == llamada.op = "autenticar_mfa"

\* how many times the last call made the collaborator call ev
Veces(ev) ==
    Cardinality({i \in 1..Len(llamada.eventos) : llamada.eventos[i] = ev})

Invocado(ev) == Veces(ev) > 0

\* validar_rfid, a 4-gesture capture and validar_pin, a 10-gesture capture
\* and validar_patron all succeeded in the last call
TresFactores ==
    /\ llamada.factores = <<"ok", "ok", "ok">>
    /\ llamada.largo_pin = LargoPin
    /\ llamada.largo_patron = LargoPatron

\* the last call added exactly one record at the end of repo_accesos
UnAccesoMas ==
    /\ Len(repo_accesos) = Len(llamada.accesos_antes) + 1
    /\ SubSeq(repo_accesos, 1, Len(llamada.accesos_antes))
          = llamada.accesos_antes

\* C1: a call of autenticar_mfa adds an access record if and only if all
\* three factors succeeded in that call; it adds at most one, and the record
\* returned is the one added and carries the supplied cedula and id_area and
\* an empty registro_exitoso_id.
C1_AccesoSiYSoloSiTresFactores ==
    EsMfa =>
        /\ UnAccesoMas \/ repo_accesos = llamada.accesos_antes
        /\ UnAccesoMas <=> TresFactores
        /\ TresFactores =>
              /\ llamada.exc = "ok"
              /\ llamada.retorno = repo_accesos[Len(repo_accesos)]
              /\ llamada.retorno.cedula_usuario = llamada.cedula
              /\ llamada.retorno.id_area = llamada.id_area
              /\ llamada.retorno.registro_exitoso_id = ""

C1_Witness ==
    /\ EsMfa
    /\ TresFactores
    /\ UnAccesoMas
    /\ llamada.retorno.cedula_usuario = "u1"
    /\ llamada.retorno.id_area = "a1"

\* C2: a call of autenticar_mfa invokes indicar_exito and abrir_puerta
\* exactly once each when all three factors succeed and not at all when any
\* factor fails.
C2_ActuadorSoloConTresFactores ==
    EsMfa =>
        IF TresFactores
        THEN Veces("indicar_exito") = 1 /\ Veces("abrir_puerta") = 1
        ELSE Veces("indicar_exito") = 0 /\ Veces("abrir_puerta") = 0

C2_Witness ==
    /\ EsMfa
    /\ TresFactores
    /\ Veces("indicar_exito") = 1
    /\ Veces("abrir_puerta") = 1

\* C3: a PIN whose failed-attempt count has reached max_intentos_pin is
\* BLOQUEADO, and a PIN that was BLOQUEADO before a step (llamada.pins_antes
\* is repo_pins as the last step found it) is BLOQUEADO after it, whatever
\* sequence was presented.
C3_BloqueadoParaSiempre ==
    /\ \A a \in DOMAIN repo_pins :
          repo_pins[a].intentos_fallidos >= max_intentos_pin
              => repo_pins[a].estado = "BLOQUEADO"
    /\ \A a \in DOMAIN llamada.pins_antes :
          llamada.pins_antes[a].estado = "BLOQUEADO"
              => /\ a \in DOMAIN repo_pins
                 /\ repo_pins[a].estado = "BLOQUEADO"

C3_Witness ==
    /\ llamada.op = "validar_pin"
    /\ llamada.id_area = "a1"
    /\ llamada.pin_igual
    /\ llamada.pins_antes["a1"].estado = "BLOQUEADO"
    /\ llamada.pins_antes["a1"].intentos_fallidos = max_intentos_pin
    /\ repo_pins["a1"].estado = "BLOQUEADO"

\* the last call invoked validar_pin for area a, which has a PIN
PinValidado(a) ==
    /\ Invocado("validar_pin")
    /\ llamada.id_area = a
    /\ a \in DOMAIN llamada.pins_antes

\* C4: validar_pin on an ACTIVO PIN with count k and a captured sequence
\* other than the reference fails with AutenticacionError and leaves the
\* count at k + 1; the PIN stays ACTIVO when k < max_intentos_pin - 1 and
\* is BLOQUEADO when k + 1 = max_intentos_pin.
C4_FalloCuentaYBloquea ==
    \A a \in DOMAIN repo_pins :
        (/\ PinValidado(a)
         /\ llamada.pins_antes[a].estado = "ACTIVO"
         /\ ~llamada.pin_igual)
        => LET k == llamada.pins_antes[a].intentos_fallidos IN
           /\ llamada.exc = AutErr
           /\ repo_pins[a].intentos_fallidos = k + 1
           /\ k < max_intentos_pin - 1 => repo_pins[a].estado = "ACTIVO"
           /\ k + 1 = max_intentos_pin => repo_pins[a].estado = "BLOQUEADO"

C4_Witness ==
    /\ PinValidado("a1")
    /\ ~llamada.pin_igual
    /\ llamada.pins_antes["a1"].estado = "ACTIVO"
    /\ llamada.pins_antes["a1"].intentos_fallidos = max_intentos_pin - 1
    /\ repo_pins["a1"].intentos_fallidos = max_intentos_pin
    /\ repo_pins["a1"].estado = "BLOQUEADO"

\* C5: validar_pin on a BLOQUEADO PIN fails with AutenticacionError for
\* every captured sequence, the reference included, and leaves the PIN as
\* it was.
C5_BloqueadoFallaSinCambio ==
    \A a \in DOMAIN repo_pins :
        (PinValidado(a) /\ llamada.pins_antes[a].estado = "BLOQUEADO")
        => /\ llamada.exc = AutErr
           /\ repo_pins[a].intentos_fallidos
                 = llamada.pins_antes[a].intentos_fallidos
           /\ repo_pins[a].estado = llamada.pins_antes[a].estado

C5_Witness ==
    /\ PinValidado("a1")
    /\ llamada.pins_antes["a1"].estado = "BLOQUEADO"
    /\ llamada.pin_igual
    /\ llamada.exc = AutErr
    /\ repo_pins["a1"] = llamada.pins_antes["a1"]

\* the last call invoked validar_rfid with a serial that has a credential
\* whose owner is not the expected user
OtroPropietario(s) ==
    /\ Invocado("validar_rfid")
    /\ llamada.serial = s
    /\ s \in DOMAIN llamada.rfid_antes
    /\ llamada.rfid_antes[s].cedula_propietario # llamada.cedula

\* C6: validar_rfid with an expected user who is not the owner fails with
\* AutenticacionError, adds exactly 1 to intentos_fallidos and leaves
\* estado, intentos_exitosos and ultimo_acceso alone, whatever the state of
\* the credential and the date.
C6_OtroPropietarioSoloCuenta ==
    \A s \in DOMAIN repo_rfid :
        OtroPropietario(s)
        => LET antes == llamada.rfid_antes[s] IN
           /\ llamada.exc = AutErr
           /\ repo_rfid[s].intentos_fallidos = antes.intentos_fallidos + 1
           /\ repo_rfid[s].estado = antes.estado
           /\ repo_rfid[s].intentos_exitosos = antes.intentos_exitosos
           /\ repo_rfid[s].ultimo_acceso = antes.ultimo_acceso

C6_Witness ==
    /\ llamada.op = "validar_rfid"
    /\ OtroPropietario("s1")
    /\ llamada.rfid_antes["s1"].estado = "ACTIVA"
    /\ date(llamada.ahora) > llamada.rfid_antes["s1"].fecha_expiracion
    /\ repo_rfid["s1"].estado = "ACTIVA"
    /\ repo_rfid["s1"].intentos_fallidos
          = llamada.rfid_antes["s1"].intentos_fallidos + 1

\* C7: autenticar_mfa with an RFID of another owner fails with
\* AutenticacionError without asking either sensor for a capture; the
\* credential's intentos_fallidos grows by exactly 1 and the PINs are left
\* as they were.
C7_OtroPropietarioSinCaptura ==
    \A s \in DOMAIN repo_rfid :
        (EsMfa /\ OtroPropietario(s))
        => /\ llamada.exc = AutErr
           /\ ~Invocado("capturar_pin")
           /\ ~Invocado("capturar_patron")
           /\ llamada.largo_pin = -1 /\ llamada.largo_patron = -1
           /\ repo_rfid[s].intentos_fallidos
                 = llamada.rfid_antes[s].intentos_fallidos + 1
           /\ repo_pins = llamada.pins_antes

C7_Witness ==
    /\ EsMfa
    /\ OtroPropietario("s1")
    /\ llamada.id_area = "a1"
    /\ llamada.eventos = <<"validar_rfid">>
    /\ llamada.exc = AutErr

\* C8: when the RFID factor succeeded and the PIN sensor delivered a
\* sequence of a length other than 4, autenticar_mfa fails with
\* AutenticacionError, validar_pin is not invoked, the PINs are left as they
\* were and the pattern sensor is not asked.
C8_PinIncompletoNoCuenta ==
    (/\ EsMfa
     /\ Len(llamada.factores) >= 1
     /\ llamada.factores[1] = "ok"
     /\ llamada.largo_pin # LargoPin)
    => /\ llamada.exc = AutErr
       /\ Invocado("capturar_pin")
       /\ ~Invocado("validar_pin")
       /\ repo_pins = llamada.pins_antes
       /\ ~Invocado("capturar_patron")

C8_Witness ==
    /\ EsMfa
    /\ llamada.factores = <<"ok">>
    /\ llamada.largo_pin = LargoPin - 1
    /\ llamada.id_area = "a1"
    /\ llamada.exc = AutErr
    /\ repo_pins = llamada.pins_antes

\* ---------------------------------------- properties of validar_patron alone
\* (checked under SpecPatron: the reference is that of u1, the captured
\* sequence is captura.sec)

RefPatron == repo_patrones["u1"].secuencia_gestos

\* validar_patron was applied to a non-empty capture of a user with a pattern
SimilitudCalculada ==
    /\ llamada.op = "validar_patron"
    /\ llamada.cedula \in DOMAIN repo_patrones
    /\ Len(captura.sec) > 0

\* the positions of the overlap at which reference and capture agree
Coincidencias ==
    Cardinality({i \in 1..Min(Len(RefPatron), Len(captura.sec)) :
                    RefPatron[i] = captura.sec[i]})

Mayor == Max(Len(RefPatron), Len(captura.sec))

NoCoincide == llamada.msg = "Patron gestual no coincide."

\* C9: validar_patron rejects for similarity exactly when matches / n is
\* strictly below umbral_similitud_patron; with the threshold at 9/10, 9
\* matching positions out of n = 10 pass the similarity check and 8 out of
\* 10 fail with AutenticacionError.
C9_RechazaSoloBajoElUmbral ==
    SimilitudCalculada =>
        /\ NoCoincide <=>
              Coincidencias * umbral_similitud_patron[2]
                  < umbral_similitud_patron[1] * Mayor
        /\ NoCoincide => llamada.exc = AutErr
        /\ umbral_similitud_patron = <<9, 10>> =>
              /\ (Mayor = 10 /\ Coincidencias = 9) => ~NoCoincide
              /\ (Mayor = 10 /\ Coincidencias = 8) => NoCoincide

C9_Witness ==
    /\ SimilitudCalculada
    /\ Len(RefPatron) = 10
    /\ Len(captura.sec) = 10
    /\ Coincidencias = 9
    /\ llamada.exc = "ok"

\* C10: for every reference and every non-empty capture the similarity is
\* (agreeing positions of the overlap) / max(len(reference), len(capture));
\* identical sequences give 1, equal-length sequences that differ at every
\* position give 0, and a capture of half the reference's length that
\* agrees on the whole overlap gives 1/2.
C10_SimilitudEsCoincidenciasSobreMayor ==
    SimilitudCalculada =>
        /\ llamada.sim[2] > 0
        /\ llamada.sim[1] * Mayor = Coincidencias * llamada.sim[2]
        /\ captura.sec = RefPatron => llamada.sim[1] = llamada.sim[2]
        /\ (/\ Len(captura.sec) = Len(RefPatron)
            /\ \A i \in 1..Len(RefPatron) : captura.sec[i] # RefPatron[i])
           => llamada.sim[1] = 0
        /\ (/\ 2 * Len(captura.sec) = Len(RefPatron)
            /\ captura.sec = SubSeq(RefPatron, 1, Len(captura.sec)))
           => 2 * llamada.sim[1] = llamada.sim[2]

C10_Witness ==
    /\ SimilitudCalculada
    /\ Len(RefPatron) = 10
    /\ captura.sec = SubSeq(RefPatron, 1, 5)
    /\ 2 * llamada.sim[1] = llamada.sim[2]
    /\ llamada.exc = AutErr

\* ----------------------------- specification of the timing check of
\* validar_patron: the captured sequence passes or just misses the
\* similarity check, the reference and captured timings are drawn at the
\* start

\* reference deltas: 0 (skipped), 5 (band 3..7), 45 (band 27..63)
DeltasRef == {0, 5, 45}

\* captured deltas: on each boundary of the two bands and one unit beyond
DeltasCapturados == {2, 3, 7, 8, 26, 27, 63, 64}

\* absent, or one or two deltas
ListasDeTiempos(D) ==
    {SinTiempos} \cup {Tiempos(v) : v \in [1..1 -> D] \cup [1..2 -> D]}

InitTiempos ==
    /\ repo_rfid = [s \in {"s1"} |-> Credencial("u1", "ACTIVA")]
    /\ repo_pins = [a \in {"a1"} |->
                      [secuencia_gestos |-> PinRef,
                       estado |-> "ACTIVO",
                       intentos_fallidos |-> 0]]
    /\ \E t \in ListasDeTiempos(DeltasRef) :
          repo_patrones = [u \in {"u1"} |->
                             [secuencia_gestos |-> PatronRef,
                              tiempos_entre_gestos |-> t]]
    /\ repo_accesos = <<>>
    /\ reloj = 0
    /\ \E k \in 0..2, t \in ListasDeTiempos(DeltasCapturados) :
          captura = [sec |-> ConErrores(PatronRef, 1..k), tiempos |-> t]
    /\ llamada = NuevaLlamada("ninguna")

SpecTiempos == InitTiempos /\ [][NextPatron]_vars

\* the similarity check of the last validar_patron call passed
SimilitudSuficiente ==
    /\ SimilitudCalculada
    /\ ~(Coincidencias * umbral_similitud_patron[2]
            < umbral_similitud_patron[1] * Mayor)

TiemposRefPatron == repo_patrones["u1"].tiempos_entre_gestos

FueraDeTiempo ==
    /\ llamada.exc = AutErr
    /\ llamada.msg = "Patron gestual: timings fuera de tolerancia."

\* got lies outside the closed band [0.6 * ref, 1.4 * ref]
FueraDeBanda(ref, got) == ~(6 * ref <= 10 * got /\ 10 * got <= 14 * ref)

\* both timing lists are present, of equal length, and some pair with
\* ref # 0 has got outside the band
AlgunDeltaFuera ==
    /\ TiemposRefPatron.presente
    /\ captura.tiempos.presente
    /\ Len(TiemposRefPatron.valores) = Len(captura.tiempos.valores)
    /\ \E i \in 1..Len(TiemposRefPatron.valores) :
          /\ TiemposRefPatron.valores[i] # 0
          /\ FueraDeBanda(TiemposRefPatron.valores[i],
                          captura.tiempos.valores[i])

\* C11: once the similarity check has passed, validar_patron fails with the
\* timing AutenticacionError if and only if both timing lists are present,
\* of equal length, and some pair (ref, got) has ref # 0 and got outside
\* the closed band [0.6 * ref, 1.4 * ref]; otherwise it succeeds.  A delta
\* exactly on a boundary of the band passes.
C11_TiemposFueraSoloFueraDeBanda ==
    SimilitudSuficiente =>
        /\ FueraDeTiempo <=> AlgunDeltaFuera
        /\ ~AlgunDeltaFuera => llamada.exc = "ok"

\* --------------------------------------------------- claims on validar_rfid

\* the last call ran validar_rfid on a stored credential
RfidEvaluado ==
    /\ llamada.eventos # <<>>
    /\ llamada.eventos[1] = "validar_rfid"
    /\ llamada.serial \in DOMAIN llamada.rfid_antes

\* the credential before and after the last call
CredAntes == llamada.rfid_antes[llamada.serial]
CredDespues == repo_rfid[llamada.serial]

\* validar_rfid was called with the owner of the credential
RfidDelPropietario ==
    RfidEvaluado /\ CredAntes.cedula_propietario = llamada.cedula

\* the evaluation date is strictly after the expiration date
Vencida == date(llamada.ahora) > CredAntes.fecha_expiracion

\* C12: validar_rfid with the matching owner on a credential that is not
\* valid (not ACTIVA, or past its expiration date) fails with
\* AutenticacionError, adds exactly 1 to the failed-attempt count, and sets
\* the state to EXPIRADA exactly when the evaluation date is strictly after
\* the expiration date; on or before that date the state is kept.
C12_NoVigenteCuentaYExpiraSoloVencida ==
    (RfidDelPropietario /\ (CredAntes.estado # "ACTIVA" \/ Vencida)) =>
        /\ llamada.factores[1] = AutErr
        /\ llamada.exc = AutErr
        /\ CredDespues.intentos_fallidos = CredAntes.intentos_fallidos + 1
        /\ CredDespues.intentos_exitosos = CredAntes.intentos_exitosos
        /\ Vencida => CredDespues.estado = "EXPIRADA"
        /\ ~Vencida => CredDespues.estado = CredAntes.estado

\* an ACTIVA credential evaluated after its expiration date became EXPIRADA
C12_Witness ==
    /\ RfidDelPropietario
    /\ CredAntes.estado = "ACTIVA"
    /\ Vencida
    /\ CredDespues.estado = "EXPIRADA"
    /\ CredDespues.intentos_fallidos = CredAntes.intentos_fallidos + 1

\* C13: validar_rfid with the matching owner on an ACTIVA credential whose
\* expiration date is not before the evaluation date succeeds, adds exactly
\* 1 to the successful-attempt count, resets the failed-attempt count to 0,
\* sets ultimo_acceso to the evaluation time and leaves the state ACTIVA.
C13_VigenteTieneExito ==
    (RfidDelPropietario /\ CredAntes.estado = "ACTIVA" /\ ~Vencida) =>
        /\ llamada.factores[1] = "ok"
        /\ llamada.op = "validar_rfid" => llamada.exc = "ok"
        /\ CredDespues.intentos_exitosos = CredAntes.intentos_exitosos + 1
        /\ CredDespues.intentos_fallidos = 0
        /\ CredDespues.ultimo_acceso = llamada.ahora
        /\ CredDespues.estado = "ACTIVA"

\* a success that reset a failed-attempt count above zero
C13_Witness ==
    /\ RfidDelPropietario
    /\ llamada.factores[1] = "ok"
    /\ CredAntes.intentos_fallidos > 0
    /\ CredDespues.intentos_fallidos = 0
    /\ CredDespues.ultimo_acceso = llamada.ahora

\* C14: the failed-attempt count of a credential is never compared with
\* max_intentos_rfid: no call moves a credential to BLOQUEADA, an owner
\* mismatch on an ACTIVA unexpired credential leaves it ACTIVA whatever its
\* count, and a call with the matching owner on an ACTIVA unexpired
\* credential succeeds whatever its count.
C14_RfidNuncaBloquea ==
    RfidEvaluado =>
        /\ CredDespues.estado = "BLOQUEADA" => CredAntes.estado = "BLOQUEADA"
        /\ (CredAntes.estado = "ACTIVA" /\ ~Vencida) =>
              /\ CredDespues.estado = "ACTIVA"
              /\ RfidDelPropietario => llamada.factores[1] = "ok"

\* a success on a credential that had max_intentos_rfid failures
C14_Witness ==
    /\ RfidDelPropietario
    /\ CredAntes.estado = "ACTIVA"
    /\ CredAntes.intentos_fallidos >= max_intentos_rfid
    /\ llamada.factores[1] = "ok"
    /\ CredDespues.estado = "ACTIVA"

\* ------------------------------------------------ claims on autenticar_mfa

\* the last autenticar_mfa call passed the RFID factor and then failed
FallaTrasRfid ==
    /\ EsMfa
    /\ llamada.factores # <<>>
    /\ llamada.factores[1] = "ok"
    /\ llamada.exc # "ok"

\* the PIN of the area of the last call, before and after it
PinAntes == llamada.pins_antes[llamada.id_area]
PinDespues == repo_pins[llamada.id_area]

\* the last autenticar_mfa call failed in validar_pin on a mismatch
FallaPorPinIncorrecto ==
    /\ FallaTrasRfid
    /\ Len(llamada.factores) = 2
    /\ llamada.msg = "PIN gestual incorrecto."

\* C15: a failure in a later factor of autenticar_mfa rolls nothing back:
\* when the call fails after the RFID factor (PIN capture, PIN validation,
\* pattern capture or pattern validation) the credential has one more
\* successful attempt, a failed-attempt count of 0 and ultimo_acceso set to
\* the evaluation time; when it fails on a PIN mismatch the PIN keeps its
\* incremented count, and BLOQUEADO if the count reached the maximum.
C15_FallaPosteriorNoDeshace ==
    /\ FallaTrasRfid =>
          /\ CredDespues.intentos_exitosos = CredAntes.intentos_exitosos + 1
          /\ CredDespues.intentos_fallidos = 0
          /\ CredDespues.ultimo_acceso = llamada.ahora
    /\ FallaPorPinIncorrecto =>
          /\ PinDespues.intentos_fallidos = PinAntes.intentos_fallidos + 1
          /\ PinDespues.intentos_fallidos >= max_intentos_pin
                => PinDespues.estado = "BLOQUEADO"

\* a call that passed the RFID factor and whose PIN mismatch blocked the PIN
C15_Witness ==
    /\ FallaPorPinIncorrecto
    /\ PinAntes.estado = "ACTIVO"
    /\ PinDespues.estado = "BLOQUEADO"
    /\ CredDespues.intentos_exitosos = CredAntes.intentos_exitosos + 1

\* the order of the steps of autenticar_mfa
OrdenMfa ==
    <<"validar_rfid", "capturar_pin", "validar_pin", "capturar_patron",
      "validar_patron", "indicar_exito", "abrir_puerta", "agregar">>

\* position of step ev in OrdenMfa
Paso(ev) == CHOOSE i \in 1..Len(OrdenMfa) : OrdenMfa[i] = ev

\* the steps of the last call went beyond step ev
Pasado(ev) == Len(llamada.eventos) > Paso(ev)

\* C16: the steps of one autenticar_mfa call form a prefix of: RFID
\* validation, PIN capture, PIN validation, pattern capture, pattern
\* validation, indicar_exito, abrir_puerta, access-record add.  A step is
\* taken only when every earlier one succeeded (validators returned,
\* captures had the full length), and both actuator signals come before the
\* record is added.
C16_PasosEnOrden ==
    EsMfa =>
        /\ Len(llamada.eventos) \in 1..Len(OrdenMfa)
        /\ llamada.eventos = SubSeq(OrdenMfa, 1, Len(llamada.eventos))
        /\ Pasado("validar_rfid") => llamada.factores[1] = "ok"
        /\ Pasado("capturar_pin") => llamada.largo_pin = LargoPin
        /\ Pasado("validar_pin") => llamada.factores[2] = "ok"
        /\ Pasado("capturar_patron") => llamada.largo_patron = LargoPatron
        /\ Pasado("validar_patron") => llamada.factores[3] = "ok"
        /\ UnAccesoMas =>
              /\ Invocado("indicar_exito")
              /\ Invocado("abrir_puerta")
              /\ Invocado("agregar")
              /\ Paso("indicar_exito") < Paso("agregar")
              /\ Paso("abrir_puerta") < Paso("agregar")

\* a granted call: all eight steps were taken
C16_Witness ==
    /\ EsMfa
    /\ llamada.eventos = OrdenMfa
    /\ UnAccesoMas

\* the last autenticar_mfa call was granted
Concedido == EsMfa /\ llamada.exc = "ok"

\* C17: the evaluation time is read once per autenticar_mfa call: after a
\* granted call, fecha_entrada of the returned record equals the
\* ultimo_acceso the same call wrote on the credential.
C17_UnaSolaLecturaDelReloj ==
    Concedido =>
        /\ llamada.retorno.fecha_entrada = CredDespues.ultimo_acceso
        /\ llamada.retorno.fecha_entrada = llamada.ahora

\* a granted call during which the clock moved
C17_Witness ==
    /\ Concedido
    /\ now # llamada.ahora
    /\ llamada.retorno.fecha_entrada = CredDespues.ultimo_acceso

\* the last call ran validar_pin on a stored PIN
PinEvaluado ==
    /\ Invocado("validar_pin")
    /\ llamada.id_area \in DOMAIN llamada.pins_antes

\* how validar_pin ended in the last call
ResultadoPin ==
    IF EsMfa THEN llamada.factores[2] ELSE llamada.factores[1]

\* C18: from an ACTIVO PIN with count 0, after any sequence of validar_pin
\* calls the count stays in 0..max_intentos_pin and the state is BLOQUEADO
\* exactly when the count equals max_intentos_pin; a matching capture on an
\* ACTIVO PIN succeeds and resets the count to 0.
C18_ConteoPinEnRango ==
    /\ \A a \in DOMAIN repo_pins :
          /\ repo_pins[a].intentos_fallidos \in 0..max_intentos_pin
          /\ repo_pins[a].estado = "BLOQUEADO"
                <=> repo_pins[a].intentos_fallidos = max_intentos_pin
    /\ (PinEvaluado /\ PinAntes.estado = "ACTIVO" /\ llamada.pin_igual) =>
          /\ ResultadoPin = "ok"
          /\ PinDespues.intentos_fallidos = 0
          /\ PinDespues.estado = "ACTIVO"

\* a matching capture reset a count one short of the lockout
C18_Witness ==
    /\ PinEvaluado
    /\ llamada.pin_igual
    /\ PinAntes.estado = "ACTIVO"
    /\ PinAntes.intentos_fallidos = max_intentos_pin - 1
    /\ PinDespues.intentos_fallidos = 0

\* the last call was autenticar_mfa for an area whose PIN was BLOQUEADO
MfaConPinBloqueado ==
    /\ EsMfa
    /\ llamada.id_area \in DOMAIN llamada.pins_antes
    /\ PinAntes.estado = "BLOQUEADO"

\* C19: once the PIN of an area is BLOQUEADO, no autenticar_mfa call for
\* that area is granted (no actuator signal, no access record), whatever the
\* sensors deliver, and the PIN stays BLOQUEADO; each such call whose RFID
\* factor passes still adds 1 to the credential's successful attempts.
C19_PinBloqueadoNiegaSiempre ==
    MfaConPinBloqueado =>
        /\ llamada.exc # "ok"
        /\ ~Invocado("indicar_exito")
        /\ ~Invocado("abrir_puerta")
        /\ ~Invocado("agregar")
        /\ repo_accesos = llamada.accesos_antes
        /\ PinDespues = PinAntes
        /\ llamada.factores[1] = "ok" =>
              CredDespues.intentos_exitosos = CredAntes.intentos_exitosos + 1

\* a call with a valid RFID and the correct PIN gestures on a blocked PIN
C19_Witness ==
    /\ MfaConPinBloqueado
    /\ llamada.factores = <<"ok", AutErr>>
    /\ llamada.pin_igual
    /\ llamada.msg = "PIN gestual bloqueado para esta area."
    /\ CredDespues.intentos_exitosos = CredAntes.intentos_exitosos + 1

\* C20: autenticar_mfa never fails with ValidacionError: validar_patron is
\* reached only with a capture of exactly 10 gestures, and every failure of
\* the call is a repository NotFound or an AutenticacionError.
C20_MfaSinValidacionError ==
    EsMfa =>
        /\ llamada.exc \in {"ok", "NotFound", AutErr}
        /\ llamada.exc # "ValidacionError"
        /\ Invocado("validar_patron") => llamada.largo_patron = LargoPatron

\* the pattern sensor delivered an empty capture and the call was rejected
\* before validar_patron
C20_Witness ==
    /\ EsMfa
    /\ llamada.largo_patron = 0
    /\ ~Invocado("validar_patron")
    /\ llamada.exc = AutErr
    /\ llamada.msg = "Patron gestual incompleto."

====
